---------------------------- MODULE Spec2Model ----------------------------
(***************************************************************************)
(* Model of lmp.tknzr.BaseTknzr (src/lmp/tknzr/_base_tknzr.py): the        *)
(* vocabulary store (tk2id / id2tk), the encoder and decoder (enc, dec,    *)
(* batch_enc, batch_dec) and the vocabulary builder (build_vocab).         *)
(*                                                                         *)
(* A text is a sequence of atoms.  An atom is either the whitespace atom   *)
(* WS or a word: a maximal run of non-whitespace characters, kept as one   *)
(* symbol.  Two words are never adjacent in a text (they would be one      *)
(* longer word).  A token is a word.                                       *)
(***************************************************************************)
EXTENDS Integers, Sequences, FiniteSets, TLC

(***************************************************************************)
(* Class constants of BaseTknzr.                                           *)
(***************************************************************************)
bos_tk == "[bos]"
bos_tkid == 0
eos_tk == "[eos]"
eos_tkid == 1
pad_tk == "[pad]"
pad_tkid == 2
unk_tk == "[unk]"
unk_tkid == 3

\* The `max_seq_len` value meaning "neither truncate nor pad".
NoLimit == -1

(***************************************************************************)
(* Bounds of the model.                                                    *)
(***************************************************************************)
\* Longest text, in atoms.  A batch holds at most MaxTxtLen atoms in all.
MaxTxtLen == 4
\* Largest explicit max_seq_len passed to enc / batch_enc.
MaxSeqLen == 4
\* Longest id sequence passed to dec; a batch holds at most MaxIdsLen ids.
MaxIdsLen == 2
\* Largest configured max_vocab.
MaxVocab == 6
\* Largest configured min_count.
MaxMinCount == 2

(***************************************************************************)
(* Input alphabets.                                                        *)
(***************************************************************************)
WS == " "
\* Words of the texts: two that differ only in case, and one that is
\* spelled like a special token.
Words == {"a", "A", bos_tk}
Atoms == Words \cup {WS}

IsText(t) == \A i \in 1..(Len(t) - 1) : t[i] = WS \/ t[i + 1] = WS

SeqsUpTo(S, n) == UNION {[1..k -> S] : k \in 0..n}

Texts == {t \in SeqsUpTo(Atoms, MaxTxtLen) : IsText(t)}

\* A batch of texts: none, one, or two whose atoms number at most MaxTxtLen.
Batches ==
    {<<>>} \cup {<<t>> : t \in Texts}
           \cup {b \in Texts \X Texts : Len(b[1]) + Len(b[2]) <= MaxTxtLen}

\* Explicit max_seq_len arguments, and the default.
SeqLens == {NoLimit} \cup 1..MaxSeqLen

\* Token ids handed to dec: every id a store can hold, and MaxVocab, which
\* no store holds.
IdPool == 0..MaxVocab
IdSeqs == SeqsUpTo(IdPool, MaxIdsLen)
IdBatches ==
    {<<>>} \cup {<<s>> : s \in IdSeqs}
           \cup {b \in IdSeqs \X IdSeqs : Len(b[1]) + Len(b[2]) <= MaxIdsLen}

\* The value None: of a `tk2id` argument left out, and of a method that
\* returns nothing.
None == {}

\* The lookup table holding the special tokens only.
SpecialStore ==
    (bos_tk :> bos_tkid) @@ (eos_tk :> eos_tkid) @@
    (pad_tk :> pad_tkid) @@ (unk_tk :> unk_tkid)

\* `tk2id` arguments: None, or (as a one-element set) a pre-trained table
\* holding the specials and one more token, at the next id or one id further
\* (a gap).
Seeds ==
    {None} \cup {{SpecialStore @@ ("a" :> i)} : i \in {unk_tkid + 1, unk_tkid + 2}}

\* Configured max_vocab: from one less than the number of special tokens.
MaxVocabs == (Cardinality(DOMAIN SpecialStore) - 1)..MaxVocab
MinCounts == 1..MaxMinCount

VARIABLES
    is_uncased,     \* self.is_uncased
    max_vocab,      \* self.max_vocab
    min_count,      \* self.min_count
    tk2id,          \* self.tk2id : token -> id
    id2tk,          \* self.id2tk : id -> token
    pc,             \* the caller: "idle", or "returned" from a call
    op,             \* the method that returned, "" when idle
    arg,            \* its arguments (and: for build_vocab, the store before
                    \* the call; for dec, the tokens it handed to dtknz)
    out             \* what it returned, or the exception it raised

vars == <<is_uncased, max_vocab, min_count, tk2id, id2tk, pc, op, arg, out>>
conf == <<is_uncased, max_vocab, min_count>>
store == <<tk2id, id2tk>>

Range(f) == {f[x] : x \in DOMAIN f}
Max(S) == CHOOSE m \in S : \A n \in S : n <= m

(***************************************************************************)
(* Text helpers: lmp.tknzr.util.norm, str.lower, and the tokenizer         *)
(* variant's split and join.                                               *)
(***************************************************************************)
RECURSIVE Collapse(_)
Collapse(t) ==
    IF Len(t) <= 1 THEN t
    ELSE IF t[1] = WS /\ t[2] = WS THEN Collapse(Tail(t))
    ELSE <<t[1]>> \o Collapse(Tail(t))

RECURSIVE Strip(_)
Strip(t) ==
    IF t = <<>> THEN t
    ELSE IF t[1] = WS THEN Strip(Tail(t))
    ELSE IF t[Len(t)] = WS THEN Strip(SubSeq(t, 1, Len(t) - 1))
    ELSE t

\* lmp.tknzr.util.norm: whitespace runs collapsed, ends stripped.
util_norm(txt) == Strip(Collapse(txt))

\* str.lower, on one atom.
lower(a) == IF a = "A" THEN "a" ELSE a

norm(txt) ==
    LET norm_txt == util_norm(txt)
    IN  IF is_uncased
        THEN [i \in 1..Len(norm_txt) |-> lower(norm_txt[i])]
        ELSE norm_txt

\* Whitespace split: the words of the text, in order.
split(txt) == SelectSeq(txt, LAMBDA a : a # WS)

\* tknz: "Text will first be normalized and then be tokenized."
tknz(txt) == split(norm(txt))

RECURSIVE join(_)
join(tks) ==
    IF Len(tks) <= 1 THEN tks
    ELSE <<tks[1], WS>> \o join(Tail(tks))

\* dtknz: "Tokens will first be normalized and then be detokenized."
dtknz(tks) == norm(join(tks))

(***************************************************************************)
(* lmp.tknzr.util.trunc_to_max and pad_to_max.                             *)
(***************************************************************************)
trunc_to_max(seq, max_seq_len) ==
    IF max_seq_len = NoLimit THEN seq
    ELSE SubSeq(seq, 1, IF Len(seq) < max_seq_len THEN Len(seq) ELSE max_seq_len)

pad_to_max(seq, pad, max_seq_len) ==
    IF max_seq_len = NoLimit \/ Len(seq) >= max_seq_len THEN seq
    ELSE seq \o [i \in 1..(max_seq_len - Len(seq)) |-> pad]

(***************************************************************************)
(* collections.Counter: the counts in first-insertion order, as a sequence *)
(* of [tk, n] entries.                                                     *)
(***************************************************************************)
RECURSIVE Counter_update(_, _)
Counter_update(c, tks) ==
    IF tks = <<>> THEN c
    ELSE LET tk == tks[1]
             at == {i \in 1..Len(c) : c[i].tk = tk}
         IN  IF at = {}
             THEN Counter_update(Append(c, [tk |-> tk, n |-> 1]), Tail(tks))
             ELSE Counter_update(
                      [i \in 1..Len(c) |->
                          IF i \in at THEN [tk |-> tk, n |-> c[i].n + 1] ELSE c[i]],
                      Tail(tks))

\* sorted(c.items(), key=itemgetter(1), reverse=True): stable, so entries of
\* equal count keep their insertion order.
SortedInsert(s, e) ==
    LET k == Cardinality({i \in 1..Len(s) : s[i].n >= e.n})
    IN  SubSeq(s, 1, k) \o <<e>> \o SubSeq(s, k + 1, Len(s))

RECURSIVE SortedPrefix(_, _)
SortedPrefix(c, k) ==
    IF k = 0 THEN <<>> ELSE SortedInsert(SortedPrefix(c, k - 1), c[k])

\* The entries left in insertion order: not sorted by count.
most_common_unsorted(c) == c

most_common(c) == SortedPrefix(c, Len(c))

(***************************************************************************)
(* BaseTknzr.__init__                                                      *)
(***************************************************************************)
\* {v: k for k, v in tk2id.items()}
Inverse(t2i) == [i \in Range(t2i) |-> CHOOSE tk \in DOMAIN t2i : t2i[tk] = i]

InitStore(tk2id_arg) ==
    IF tk2id_arg # None
    THEN LET t2i == CHOOSE t \in tk2id_arg : TRUE
         IN  [tk2id |-> t2i, id2tk |-> Inverse(t2i)]
    ELSE [tk2id |-> SpecialStore, id2tk |-> Inverse(SpecialStore)]

(***************************************************************************)
(* BaseTknzr.enc                                                           *)
(***************************************************************************)
\* try: self.tk2id[tk]  except KeyError: self.unk_tkid
lookup_id(tk) == IF tk \in DOMAIN tk2id THEN tk2id[tk] ELSE unk_tkid

\* The text split as it is given, without the normalization tknz does.
enc_unnormalized(txt, max_seq_len) ==
    LET tks == split(txt)
        tkids == <<bos_tkid>> \o [i \in 1..Len(tks) |-> lookup_id(tks[i])]
                              \o <<eos_tkid>>
    IN  pad_to_max(trunc_to_max(tkids, max_seq_len), pad_tkid, max_seq_len)

\* `[eos]` appended after the truncation instead of before it.
enc_eos_last(txt, max_seq_len) ==
    LET tks == tknz(txt)
        tkids == <<bos_tkid>> \o [i \in 1..Len(tks) |-> lookup_id(tks[i])]
    IN  pad_to_max(trunc_to_max(tkids, max_seq_len) \o <<eos_tkid>>,
                   pad_tkid, max_seq_len)

enc(txt, max_seq_len) ==
    LET tks == tknz(txt)
        tkids == <<bos_tkid>> \o [i \in 1..Len(tks) |-> lookup_id(tks[i])]
                              \o <<eos_tkid>>
    IN  pad_to_max(trunc_to_max(tkids, max_seq_len), pad_tkid, max_seq_len)

(***************************************************************************)
(* BaseTknzr.dec                                                           *)
(***************************************************************************)
\* The lookup that lets the KeyError decide nothing: always `[unk]`.
lookup_tk_unk(tkid) == unk_tk

\* try: self.id2tk[tkid]  except KeyError: unk_tk
lookup_tk(tkid) == IF tkid \in DOMAIN id2tk THEN id2tk[tkid] ELSE unk_tk

\* `[unk]` removed with the other special tokens.
sp_tkids_all == {bos_tkid, eos_tkid, pad_tkid, unk_tkid}

sp_tkids == {bos_tkid, eos_tkid, pad_tkid}

\* The tokens dec hands to dtknz.
dec_tks(tkids, rm_sp_tks) ==
    LET kept == IF rm_sp_tks
                THEN SelectSeq(tkids, LAMBDA tkid : tkid \notin sp_tkids)
                ELSE tkids
    IN  [i \in 1..Len(kept) |-> lookup_tk(kept[i])]

dec(tkids, rm_sp_tks) == dtknz(dec_tks(tkids, rm_sp_tks))

(***************************************************************************)
(* BaseTknzr.batch_enc and batch_dec                                       *)
(***************************************************************************)
\* How a call ends: with a value, or with an exception raised.
Return(v) == [raised |-> "", val |-> v]
Raise(e) == [raised |-> e, val |-> None]


batch_enc(batch_txt, max_seq_len) ==
    LET batch_tkids == [i \in 1..Len(batch_txt) |-> enc(batch_txt[i], NoLimit)]
    IN  IF max_seq_len = NoLimit /\ batch_tkids = <<>>
        THEN Raise("ValueError")    \* max() arg is an empty sequence
        ELSE LET n == IF max_seq_len = NoLimit
                      THEN Max({Len(batch_tkids[i]) : i \in 1..Len(batch_tkids)})
                      ELSE max_seq_len
             IN  Return([i \in 1..Len(batch_tkids) |->
                     pad_to_max(trunc_to_max(batch_tkids[i], n), pad_tkid, n)])

batch_dec(batch_tkids, rm_sp_tks) ==
    [i \in 1..Len(batch_tkids) |-> dec(batch_tkids[i], rm_sp_tks)]

(***************************************************************************)
(* BaseTknzr.build_vocab                                                   *)
(***************************************************************************)
RECURSIVE CountTokens(_, _)
CountTokens(c, batch_txt) ==
    IF batch_txt = <<>> THEN c
    ELSE CountTokens(Counter_update(c, tknz(norm(batch_txt[1]))), Tail(batch_txt))

\* The limit test off by one: stops only after passing the limit.
LimitReached_late(t2i, max_id) == max_id > max_vocab

\* "Stop adding tokens when pass vocabulary size limit."
LimitReached(t2i, max_id) == max_id >= max_vocab

\* "Stop adding the token when the token frequency is low."
LowCount(tk_count) == tk_count < min_count

\* The skip left out: every candidate is taken as new.
Exists_never(t2i, tk) == FALSE

\* "Skip the token if already exists."
Exists(t2i, tk) == tk \in DOMAIN t2i

\* d[k] = v on a dict.
Put(d, k, v) == [x \in DOMAIN d \cup {k} |-> IF x = k THEN v ELSE d[x]]

\* The insertion without `max_id += 1`.
AddToken_sameid(s, tk) ==
    [tk2id |-> Put(s.tk2id, tk, s.max_id),
     id2tk |-> Put(s.id2tk, s.max_id, tk),
     max_id |-> s.max_id]

\* "Add token to vocabulary."
AddToken(s, tk) ==
    [tk2id |-> Put(s.tk2id, tk, s.max_id),
     id2tk |-> Put(s.id2tk, s.max_id, tk),
     max_id |-> s.max_id + 1]

\* The loop over c.most_common(), from its k-th entry on.
RECURSIVE AddLoop(_, _, _)
AddLoop(cands, k, s) ==
    IF k > Len(cands) THEN s
    ELSE IF LimitReached(s.tk2id, s.max_id) THEN s
    ELSE IF LowCount(cands[k].n) THEN s
    ELSE IF Exists(s.tk2id, cands[k].tk) THEN AddLoop(cands, k + 1, s)
    ELSE AddLoop(cands, k + 1, AddToken(s, cands[k].tk))

FirstId(t2i) == Max(Range(t2i)) + 1

build_vocab(batch_txt) ==
    LET c == CountTokens(<<>>, batch_txt)
    IN  AddLoop(most_common(c), 1,
                [tk2id |-> tk2id, id2tk |-> id2tk, max_id |-> FirstId(tk2id)])

(***************************************************************************)
(* The instance and its caller.                                            *)
(***************************************************************************)
Init ==
    /\ is_uncased \in BOOLEAN
    /\ max_vocab \in MaxVocabs
    /\ min_count \in MinCounts
    /\ \E tk2id_arg \in Seeds :
          /\ tk2id = InitStore(tk2id_arg).tk2id
          /\ id2tk = InitStore(tk2id_arg).id2tk
    /\ pc = "idle"
    /\ op = ""
    /\ arg = <<>>
    /\ out = Return(None)

Returned(name, a, o) ==
    /\ pc' = "returned"
    /\ op' = name
    /\ arg' = a
    /\ out' = o

Enc ==
    /\ pc = "idle"
    /\ \E txt \in Texts, max_seq_len \in SeqLens :
          Returned("enc", [txt |-> txt, max_seq_len |-> max_seq_len],
                   Return(enc(txt, max_seq_len)))
    /\ UNCHANGED <<conf, store>>

Dec ==
    /\ pc = "idle"
    /\ \E tkids \in IdSeqs, rm_sp_tks \in BOOLEAN :
          Returned("dec",
                   [tkids |-> tkids, rm_sp_tks |-> rm_sp_tks,
                    tks |-> dec_tks(tkids, rm_sp_tks)],
                   Return(dec(tkids, rm_sp_tks)))
    /\ UNCHANGED <<conf, store>>

BatchEnc ==
    /\ pc = "idle"
    /\ \E batch_txt \in Batches, max_seq_len \in SeqLens :
          Returned("batch_enc",
                   [batch_txt |-> batch_txt, max_seq_len |-> max_seq_len],
                   batch_enc(batch_txt, max_seq_len))
    /\ UNCHANGED <<conf, store>>

BatchDec ==
    /\ pc = "idle"
    /\ \E batch_tkids \in IdBatches, rm_sp_tks \in BOOLEAN :
          Returned("batch_dec",
                   [batch_tkids |-> batch_tkids, rm_sp_tks |-> rm_sp_tks],
                   Return(batch_dec(batch_tkids, rm_sp_tks)))
    /\ UNCHANGED <<conf, store>>

BuildVocab ==
    /\ pc = "idle"
    /\ \E batch_txt \in Batches :
          LET s == build_vocab(batch_txt)
          IN  /\ tk2id' = s.tk2id
              /\ id2tk' = s.id2tk
              /\ Returned("build_vocab",
                          [batch_txt |-> batch_txt, tk2id |-> tk2id, id2tk |-> id2tk],
                          Return(None))
    /\ UNCHANGED conf

\* The caller is done with the result, drops it, and may call again.
Resume ==
    /\ pc = "returned"
    /\ pc' = "idle"
    /\ op' = ""
    /\ arg' = <<>>
    /\ out' = Return(None)
    /\ UNCHANGED <<conf, store>>

Next == Enc \/ Dec \/ BatchEnc \/ BatchDec \/ BuildVocab \/ Resume

Spec == Init /\ [][Next]_vars

\* The builder alone, under every configuration.
NextBuild == BuildVocab \/ Resume

SpecBuild == Init /\ [][NextBuild]_vars

\* Every method, on an instance configured not to hold the builder back.
InitCodec ==
    /\ Init
    /\ max_vocab = MaxVocab
    /\ min_count = 1

SpecCodec == InitCodec /\ [][Next]_vars

(***************************************************************************)
(* Notions the properties are stated in.                                   *)
(***************************************************************************)
\* vocab_size
Size(t2i) == Cardinality(DOMAIN t2i)

AfterCall(name) == pc = "returned" /\ op = name

\* The tokens of a corpus, text after text.
RECURSIVE CorpusTokens(_)
CorpusTokens(batch_txt) ==
    IF batch_txt = <<>> THEN <<>>
    ELSE tknz(norm(batch_txt[1])) \o CorpusTokens(Tail(batch_txt))

Freq(toks, tk) == Cardinality({i \in 1..Len(toks) : toks[i] = tk})
FirstAt(toks, tk) == CHOOSE i \in 1..Len(toks) :
                         toks[i] = tk /\ \A j \in 1..(i - 1) : toks[j] # tk

\* x is enumerated before y: higher count, or equal count and seen first.
Precedes(toks, x, y) ==
    \/ Freq(toks, x) > Freq(toks, y)
    \/ Freq(toks, x) = Freq(toks, y) /\ FirstAt(toks, x) < FirstAt(toks, y)

\* The tokens the last build_vocab call added.
Added == DOMAIN tk2id \ DOMAIN arg.tk2id

(***************************************************************************)
(* C1.  As claimed: the vocabulary size never exceeds max_vocab, in any    *)
(* state reachable from construction by build_vocab calls.                 *)
(***************************************************************************)
C1_SizeWithinCap == Size(tk2id) <= max_vocab

(***************************************************************************)
(* C1, amended.  After every build_vocab call the vocabulary size is at    *)
(* most the larger of max_vocab and the size before the call: a store      *)
(* within the cap stays within it, and a store over it does not grow.      *)
(***************************************************************************)
C1_BuildKeepsCap ==
    AfterCall("build_vocab") =>
        /\ Size(arg.tk2id) <= max_vocab => Size(tk2id) <= max_vocab
        /\ Size(arg.tk2id) > max_vocab => Size(tk2id) = Size(arg.tk2id)

\* A build that grew the store up to the cap exactly.
C1_Witness ==
    /\ AfterCall("build_vocab")
    /\ Size(arg.tk2id) < Size(tk2id)
    /\ Size(tk2id) = max_vocab

(***************************************************************************)
(* C2.  tk2id and id2tk are mutual inverses in every state reachable from  *)
(* construction by build_vocab calls: tk2id[t] = i exactly when            *)
(* id2tk[i] = t, and both have the same number of entries.                 *)
(***************************************************************************)
C2_Bijection ==
    /\ \A t \in DOMAIN tk2id :
          tk2id[t] \in DOMAIN id2tk /\ id2tk[tk2id[t]] = t
    /\ \A i \in DOMAIN id2tk :
          id2tk[i] \in DOMAIN tk2id /\ tk2id[id2tk[i]] = i
    /\ Cardinality(DOMAIN tk2id) = Cardinality(DOMAIN id2tk)

\* A build that added two tokens to a store.
C2_Witness ==
    /\ AfterCall("build_vocab")
    /\ Size(tk2id) >= Size(arg.tk2id) + 2

(***************************************************************************)
(* C5.  Within one build_vocab call the added tokens get the consecutive   *)
(* ids from max(existing ids) + 1 on, in the order of descending count     *)
(* with ties broken by first encounter: if y is added and x, absent from   *)
(* the store before the call, has a higher count (or the same count and    *)
(* an earlier first encounter), then x is added too, with a smaller id;    *)
(* and no token with a count below min_count is added.                     *)
(***************************************************************************)
C5_GrowthOrder ==
    AfterCall("build_vocab") =>
        LET toks == CorpusTokens(arg.batch_txt)
            cands == {toks[i] : i \in 1..Len(toks)} \ DOMAIN arg.tk2id
            first == Max(Range(arg.tk2id)) + 1
        IN  /\ Added \subseteq cands
            /\ \A y \in Added : Freq(toks, y) >= min_count
            /\ {tk2id[y] : y \in Added} = first..(first + Cardinality(Added) - 1)
            /\ \A y \in Added : \A x \in cands :
                  Precedes(toks, x, y) => x \in Added /\ tk2id[x] < tk2id[y]

\* A build that added two tokens, the one seen later first because its
\* count is higher.
C5_Witness ==
    /\ AfterCall("build_vocab")
    /\ LET toks == CorpusTokens(arg.batch_txt)
       IN  \E x, y \in Added :
              /\ Freq(toks, x) > Freq(toks, y)
              /\ FirstAt(toks, y) < FirstAt(toks, x)
              /\ tk2id[x] < tk2id[y]

(***************************************************************************)
(* C3.  For max_seq_len = L >= 2, enc returns exactly L ids: the first L   *)
(* entries of bos id, the looked-up ids of the tokens, eos id (natural     *)
(* length k), followed by pad ids.  When k < L the first k entries are     *)
(* the unpadded encoding and the other L - k are the pad id; when k > L    *)
(* the result is the first L entries of the unpadded encoding.             *)
(***************************************************************************)
C3_FixedLength ==
    (AfterCall("enc") /\ arg.max_seq_len >= 2) =>
        LET L == arg.max_seq_len
            tks == tknz(arg.txt)
            k == Len(tks) + 2
            natural(i) ==
                IF i = 1 THEN bos_tkid
                ELSE IF i = k THEN eos_tkid
                ELSE IF tks[i - 1] \in DOMAIN tk2id THEN tk2id[tks[i - 1]]
                ELSE unk_tkid
        IN  /\ out.raised = ""
            /\ Len(out.val) = L
            /\ \A i \in 1..L :
                  out.val[i] = IF i <= k THEN natural(i) ELSE pad_tkid

\* An encoding cut short of its eos id.
C3_Witness ==
    /\ AfterCall("enc")
    /\ arg.max_seq_len >= 2
    /\ Len(tknz(arg.txt)) + 2 > arg.max_seq_len
    /\ out.val[Len(out.val)] # eos_tkid

\* The tokens of the text enc was called on are all in the vocabulary.
AllInVocab == \A i \in 1..Len(tknz(arg.txt)) : tknz(arg.txt)[i] \in DOMAIN tk2id

\* dec(enc(txt), rm_sp_tks=True) gives back the tokens of txt: as the tokens
\* handed to dtknz, and as the tokens of the decoded text.
RoundTrip ==
    /\ dec_tks(out.val, TRUE) = tknz(arg.txt)
    /\ tknz(dec(out.val, TRUE)) = tknz(arg.txt)

(***************************************************************************)
(* C4.  As claimed: for any text whose tokens are all in the vocabulary,   *)
(* dec(enc(text), rm_sp_tks=True) gives back the token sequence of the     *)
(* text.                                                                   *)
(***************************************************************************)
C4_RoundTripInVocab ==
    (AfterCall("enc") /\ arg.max_seq_len = NoLimit /\ AllInVocab) => RoundTrip

(***************************************************************************)
(* C4, amended.  For any text whose tokens are all in the vocabulary and   *)
(* none of whose tokens is the bos, eos or pad token,                      *)
(* dec(enc(text), rm_sp_tks=True) gives back the token sequence of the     *)
(* text.                                                                   *)
(***************************************************************************)
C4_RoundTripNoSpecial ==
    (/\ AfterCall("enc") /\ arg.max_seq_len = NoLimit /\ AllInVocab
     /\ \A i \in 1..Len(tknz(arg.txt)) :
           tknz(arg.txt)[i] \notin {bos_tk, eos_tk, pad_tk})
    => RoundTrip

\* A text of two tokens, both in the vocabulary and neither special, encoded
\* without limit.
C4_Witness ==
    /\ AfterCall("enc") /\ arg.max_seq_len = NoLimit /\ AllInVocab
    /\ Len(tknz(arg.txt)) = 2
    /\ \A i \in 1..2 : tknz(arg.txt)[i] \notin {bos_tk, eos_tk, pad_tk}

(***************************************************************************)
(* C6.  batch_enc over any batch returns sequences of one common length:   *)
(* the longest natural encoding of the batch when max_seq_len is -1,       *)
(* max_seq_len otherwise; each is enc of its text with that length.        *)
(***************************************************************************)
C6_BatchUniform ==
    AfterCall("batch_enc") =>
        LET batch == arg.batch_txt
            longest == Max({Len(tknz(batch[i])) + 2 : i \in 1..Len(batch)})
            n == IF arg.max_seq_len = NoLimit THEN longest ELSE arg.max_seq_len
        IN  /\ out.raised = ""
            /\ Len(out.val) = Len(batch)
            /\ \A i \in 1..Len(batch) :
                  Len(out.val[i]) = n /\ out.val[i] = enc(batch[i], n)

(***************************************************************************)
(* C7.  enc puts the unk id at the position of every token absent from the *)
(* vocabulary; dec maps the unk id and every id absent from the store to   *)
(* the unk token; with rm_sp_tks, dec removes exactly the bos, eos and pad *)
(* ids and never the unk id, so dtknz gets as many tokens as there are     *)
(* ids other than bos, eos and pad.                                        *)
(***************************************************************************)
C7_UnknownSubstitution ==
    /\ AfterCall("enc") =>
          \A i \in 1..Len(tknz(arg.txt)) :
              (tknz(arg.txt)[i] \notin DOMAIN tk2id /\ i + 1 <= Len(out.val))
              => out.val[i + 1] = unk_tkid
    /\ AfterCall("dec") =>
          LET kept == IF arg.rm_sp_tks
                      THEN SelectSeq(arg.tkids,
                               LAMBDA i : i \notin {bos_tkid, eos_tkid, pad_tkid})
                      ELSE arg.tkids
          IN  /\ Len(arg.tks) = Len(kept)
              /\ \A j \in 1..Len(kept) :
                    /\ kept[j] \notin DOMAIN id2tk => arg.tks[j] = unk_tk
                    /\ kept[j] = unk_tkid => arg.tks[j] = unk_tk
                    /\ kept[j] \in DOMAIN id2tk => arg.tks[j] = id2tk[kept[j]]
              /\ out.val = dtknz(arg.tks)

\* A decoding with rm_sp_tks of the unk id next to a special id.
C7_Witness ==
    /\ AfterCall("dec") /\ arg.rm_sp_tks
    /\ \E i, j \in 1..Len(arg.tkids) :
          arg.tkids[i] = unk_tkid /\ arg.tkids[j] \in {bos_tkid, eos_tkid, pad_tkid}
    /\ arg.tks = <<unk_tk>>

\* The special tokens sit at their ids.
SpecialsInPlace ==
    \A tk \in DOMAIN SpecialStore :
        /\ tk \in DOMAIN tk2id /\ tk2id[tk] = SpecialStore[tk]
        /\ SpecialStore[tk] \in DOMAIN id2tk /\ id2tk[SpecialStore[tk]] = tk

\* Every entry of the store is kept as it is.
StoreKept ==
    /\ \A tk \in DOMAIN tk2id : tk \in DOMAIN tk2id' /\ tk2id'[tk] = tk2id[tk]
    /\ \A i \in DOMAIN id2tk : i \in DOMAIN id2tk' /\ id2tk'[i] = id2tk[i]

(***************************************************************************)
(* C8.  The store only grows: every build_vocab call keeps every           *)
(* (token, id) pair it found; the four special tokens keep the ids 0 to 3  *)
(* in every state, also when the corpus contains their strings; and enc,   *)
(* dec, batch_enc and batch_dec leave the store as it is.                  *)
(***************************************************************************)
C8_StoreOnlyGrows ==
    /\ SpecialsInPlace
    /\ [][/\ StoreKept
          /\ SpecialsInPlace'
          /\ op' # "build_vocab" => UNCHANGED store]_vars

\* A build on a corpus that names a special token, which grew the store.
C8_Witness ==
    /\ AfterCall("build_vocab")
    /\ \E i \in 1..Len(CorpusTokens(arg.batch_txt)) :
          CorpusTokens(arg.batch_txt)[i] \in DOMAIN SpecialStore
    /\ Added # {}

(***************************************************************************)
(* C9.  enc, dec, batch_enc, batch_dec and build_vocab never end in an     *)
(* error because of the data: for every text, id sequence, batch or        *)
(* corpus, the empty ones included, they return normally.                  *)
(***************************************************************************)
C9_NeverRaises == pc = "returned" => out.raised = ""

(***************************************************************************)
(* C10.  The limit test of build_vocab is on the vocabulary size: after    *)
(* the call, either every corpus token with a count of at least min_count  *)
(* is in the store or the vocabulary size is at least max_vocab.           *)
(***************************************************************************)
C10_CapOnSize ==
    AfterCall("build_vocab") =>
        LET toks == CorpusTokens(arg.batch_txt)
        IN  \/ \A i \in 1..Len(toks) :
                  Freq(toks, toks[i]) >= min_count => toks[i] \in DOMAIN tk2id
            \/ Size(tk2id) >= max_vocab

=============================================================================
